---- MODULE Spec2Model ----
(***************************************************************************)
(* Load balancer resource of the ncloud Terraform provider                 *)
(* (ncloud/resource_ncloud_load_balancer.go): the Create / Read / Update / *)
(* Delete handlers, the lookup getLoadBalancerInstance and the two         *)
(* convergence waits, each a polling goroutine racing a timer over a       *)
(* buffered channel.  One behaviour is one handler invocation on one       *)
(* resource, against a remote API whose instances change on their own.     *)
(***************************************************************************)
EXTENDS Integers, Sequences, FiniteSets

\* ---------------------------------------------------------------- bounds
MaxPolls == 3          \* polls one goroutine makes in a behaviour
MaxTime  == 4          \* seconds the clock runs
MaxList  == 2          \* instances in one listing response

\* ------------------------------------------------------------- constants
\* The two timeout classes, in seconds (scaled down: only their order and
\* their being positive matter here).
DefaultCreateTimeout == 3
DefaultTimeout       == 2
\* time.Sleep(time.Second * 1)
SleepSeconds == 1

IDs         == {"lb-1", "lb-2"}
StatusCodes == {"INIT", "USED"}
Errors      == {"E1", "E2"}
Absent      == "absent"

\* error values; Nil is Go's nil error, NoResult "nothing returned yet"
NoResult    == <<>>
Nil         == <<"nil">>
ApiError(e) == <<"api", e>>

VARIABLES
    remote,      \* remote API: instance no -> status code, or Absent
    now,         \* wall clock, seconds
    op,          \* handler invoked: none, create, read, update, delete
    pc,          \* handler position: idle, wait, read, returned, panic
    result,      \* error the handler returned
    d,           \* schema.ResourceData: Id and load_balancer_instance_status code
    d0,          \* d as it was when the handler was invoked
    calls,       \* mutating API calls the handler issued
    delResp,     \* response of DeleteLoadBalancerInstances: none, err, nil, resp
    lastResp,    \* listing response the handler's own Read received
    waitKind,    \* none, create (waitForLoadBalancerInstance), delete
    waitId,      \* id argument of the wait
    waitStatus,  \* status argument of the wait ("" for the delete wait)
    waitStart,   \* time the wait was entered
    deadline,    \* time at which time.After delivers
    timerFired,  \* the timer channel holds its value
    waitResult,  \* error the wait returned
    obsAtReturn, \* polls made when the wait returned
    c1,          \* the result channel
    sends,       \* sends completed on c1
    taskPc,      \* goroutine: none, poll, send, sleep, done
    taskVal,     \* value the goroutine is sending
    sleepUntil,  \* end of the goroutine's current sleep
    obs,         \* what each poll observed: a status code, Absent or an error
    sleeps       \* sleeps the goroutine completed

callerVars == <<op, pc, result, d, d0, calls, delResp, lastResp>>
waitVars   == <<waitKind, waitId, waitStatus, waitStart, deadline, waitResult, obsAtReturn>>
taskVars   == <<sends, taskPc, taskVal, sleepUntil, obs, sleeps>>
vars == <<remote, now, callerVars, waitVars, timerFired, c1, taskVars>>

\* ------------------------------------------------------------ remote API
Instance(no) == [LoadBalancerInstanceNo |-> no, Code |-> remote[no]]

Present == {i \in IDs : remote[i] # Absent}

\* Orders in which a listing may name instances: no instance twice, and the
\* requested one is there whenever it exists.
ListingOrders(no) ==
    {s \in UNION {[1..n -> Present] : n \in 0..MaxList} :
        /\ \A i, j \in DOMAIN s : i # j => s[i] # s[j]
        /\ no \in Present => \E i \in DOMAIN s : s[i] = no}

\* Responses of conn.GetLoadBalancerInstanceList: a fault or a listing.
ListResponses(no) ==
    {[err |-> e, list |-> <<>>] : e \in Errors}
    \cup {[err |-> "", list |-> [i \in DOMAIN s |-> Instance(s[i])]] : s \in ListingOrders(no)}

NoResp == [err |-> "", list |-> <<>>]

\* ------------------------------------------------ getLoadBalancerInstance
\* the lookup without the comparison of instance numbers
FindInstanceFirst(list, no) ==
    IF list = <<>> THEN <<>> ELSE <<Head(list)>>

\* for _, inst := range resp.LoadBalancerInstanceList
RECURSIVE FindInstance(_, _)
FindInstance(list, no) ==
    IF list = <<>> THEN <<>>
    ELSE IF no = Head(list).LoadBalancerInstanceNo THEN <<Head(list)>>
    ELSE FindInstance(Tail(list), no)

getLoadBalancerInstance(resp, no) ==
    IF resp.err # ""
    THEN [instance |-> <<>>, err |-> ApiError(resp.err)]
    ELSE [instance |-> FindInstance(resp.list, no), err |-> Nil]

\* what a poll saw, as one word
ObsOf(g) ==
    IF g.err # Nil THEN g.err[2]
    ELSE IF g.instance = <<>> THEN Absent
    ELSE g.instance[1].Code

\* ------------------------------------------- resourceNcloudLoadBalancerRead
Read(dd, g) ==
    IF g.err # Nil THEN [d |-> dd, err |-> g.err]
    ELSE IF g.instance # <<>>
         THEN [d |-> [dd EXCEPT !.status = g.instance[1].Code], err |-> Nil]
         ELSE [d |-> dd, err |-> Nil]

\* ------------------------------------------------------------ the waits
\* an unbuffered result channel, make(chan error): one slot fewer
ChanCapUnbuffered == 1 - 1

\* c1 := make(chan error, 1)
ChanCap == 1

\* fmt.Errorf("TIMEOUT : delete load balancer instance [%s] ", id), the
\* message of both waits, word by word
TimeoutError(id) == <<"TIMEOUT", "delete", "load balancer instance", id>>

\* a timer that ignores the timeout
TimerDeadlineZero(start, timeout) == start

\* time.After(time.Second * timeout)
TimerDeadline(start, timeout) == start + timeout

\* a loop that sleeps before it polls
TaskEntrySleep == "sleep"

\* the goroutine's loop begins with the lookup
TaskEntry == "poll"

\* loop exit test of waitForLoadBalancerInstance's goroutine
waitForLoadBalancerInstanceDone(g, status) ==
    \/ g.instance = <<>>
    \/ g.instance[1].Code = status

\* loop exit test of waitForDeleteLoadBalancerInstance's goroutine
waitForDeleteLoadBalancerInstanceDone(g) ==
    g.instance = <<>>

\* a loop that retries after a failed poll
PollOutcomeRetry(g, done) ==
    IF g.err = Nil /\ done THEN [pc |-> "send", val |-> Nil]
    ELSE [pc |-> "sleep", val |-> NoResult]

\* one iteration of a polling goroutine, given the lookup's result and the
\* outcome of the exit test
PollOutcome(g, done) ==
    IF g.err # Nil THEN [pc |-> "send", val |-> g.err]
    ELSE IF done THEN [pc |-> "send", val |-> Nil]
    ELSE [pc |-> "sleep", val |-> NoResult]

StartWait(kind, id, status, timeout) ==
    /\ waitKind' = kind
    /\ waitId' = id
    /\ waitStatus' = status
    /\ waitStart' = now
    /\ deadline' = TimerDeadline(now, timeout)
    /\ timerFired' = FALSE
    /\ waitResult' = NoResult
    /\ obsAtReturn' = 0
    /\ c1' = <<>>
    /\ sends' = 0
    /\ taskPc' = TaskEntry
    /\ taskVal' = NoResult
    /\ sleepUntil' = 0
    /\ obs' = <<>>
    /\ sleeps' = 0

NoWait == UNCHANGED <<waitVars, timerFired, c1, taskVars>>

\* ------------------------------------------------------------------ Init
Init ==
    /\ remote \in [IDs -> StatusCodes \cup {Absent}]
    /\ now = 0
    /\ op = "none"
    /\ pc = "idle"
    /\ result = NoResult
    /\ d \in {[Id |-> "", status |-> ""]}
             \cup [Id : IDs, status : StatusCodes \cup {""}]
    /\ d0 = d
    /\ calls = <<>>
    /\ delResp = "none"
    /\ lastResp = NoResp
    /\ waitKind = "none"
    /\ waitId = ""
    /\ waitStatus = ""
    /\ waitStart = 0
    /\ deadline = 0
    /\ timerFired = FALSE
    /\ waitResult = NoResult
    /\ obsAtReturn = 0
    /\ c1 = <<>>
    /\ sends = 0
    /\ taskPc = "none"
    /\ taskVal = NoResult
    /\ sleepUntil = 0
    /\ obs = <<>>
    /\ sleeps = 0

\* ---------------------------------------------------------------- Create
\* a Create that rolls back when its wait fails
CreateWaitFailedRollback(dd, err) ==
    [d |-> [dd EXCEPT !.Id = ""], result |-> err, calls |-> <<"delete">>]

\* what Create does when the wait returned an error
CreateWaitFailed(dd, err) == [d |-> dd, result |-> err, calls |-> <<>>]

\* conn.CreateLoadBalancerInstance answered with a fault
resourceNcloudLoadBalancerCreateErr ==
    /\ pc = "idle" /\ d.Id = ""
    /\ \E e \in Errors :
        /\ op' = "create"
        /\ calls' = Append(calls, "create")
        /\ pc' = "returned"
        /\ result' = ApiError(e)
    /\ UNCHANGED <<remote, now, d, d0, delResp, lastResp>>
    /\ NoWait

\* conn.CreateLoadBalancerInstance created an instance but its response
\* lists none: LoadBalancerInstanceList[0] is out of range
resourceNcloudLoadBalancerCreateEmpty ==
    /\ pc = "idle" /\ d.Id = ""
    /\ \E no \in IDs \ Present, s \in StatusCodes :
        /\ remote' = [remote EXCEPT ![no] = s]
        /\ op' = "create"
        /\ calls' = Append(calls, "create")
        /\ pc' = "panic"
    /\ UNCHANGED <<now, result, d, d0, delResp, lastResp>>
    /\ NoWait

\* the create call succeeded: SetId, then wait for "USED"
resourceNcloudLoadBalancerCreate ==
    /\ pc = "idle" /\ d.Id = ""
    /\ \E no \in IDs \ Present, s \in StatusCodes :
        /\ remote' = [remote EXCEPT ![no] = s]
        /\ op' = "create"
        /\ calls' = Append(calls, "create")
        /\ d' = [d EXCEPT !.Id = no]
        /\ pc' = "wait"
        /\ StartWait("create", no, "USED", DefaultCreateTimeout)
    /\ UNCHANGED <<now, result, d0, delResp, lastResp>>

\* return resourceNcloudLoadBalancerRead(d, meta), at the end of Create
resourceNcloudLoadBalancerCreateRead ==
    /\ pc = "read" /\ op = "create"
    /\ \E resp \in ListResponses(d.Id) :
        LET r == Read(d, getLoadBalancerInstance(resp, d.Id)) IN
        /\ lastResp' = resp
        /\ d' = r.d
        /\ result' = r.err
        /\ pc' = "returned"
    /\ UNCHANGED <<remote, now, op, d0, calls, delResp>>
    /\ NoWait

\* ----------------------------------------------------------- Read, Update
ReadHandler(name) ==
    /\ pc = "idle" /\ d.Id # ""
    /\ \E resp \in ListResponses(d.Id) :
        LET r == Read(d, getLoadBalancerInstance(resp, d.Id)) IN
        /\ op' = name
        /\ lastResp' = resp
        /\ d' = r.d
        /\ result' = r.err
        /\ pc' = "returned"
    /\ UNCHANGED <<remote, now, d0, calls, delResp>>
    /\ NoWait

resourceNcloudLoadBalancerRead == ReadHandler("read")

resourceNcloudLoadBalancerUpdate == ReadHandler("update")

\* ---------------------------------------------------------------- Delete
\* a delete that reads the response without the nil test
deleteCommonResponseNoNilTest(resp) ==
    IF resp # "nil" THEN "resp.CommonResponse" ELSE "panic"

\* the CommonResponse deleteLoadBalancerInstance logs
deleteCommonResponse(resp) == IF resp # "nil" THEN "resp.CommonResponse" ELSE "empty"

\* the delete call answered with a fault
resourceNcloudLoadBalancerDeleteErr ==
    /\ pc = "idle" /\ d.Id # ""
    /\ \E e \in Errors :
        /\ op' = "delete"
        /\ calls' = Append(calls, "delete")
        /\ delResp' = "err"
        /\ pc' = "returned"
        /\ result' = ApiError(e)
    /\ UNCHANGED <<remote, now, d, d0, lastResp>>
    /\ NoWait

\* the delete call succeeded, with a response or with none; the instance
\* is gone at once or goes later
resourceNcloudLoadBalancerDelete ==
    /\ pc = "idle" /\ d.Id # ""
    /\ \E resp \in {"nil", "resp"}, gone \in BOOLEAN :
        /\ remote' = IF gone THEN [remote EXCEPT ![d.Id] = Absent] ELSE remote
        /\ op' = "delete"
        /\ calls' = Append(calls, "delete")
        /\ delResp' = resp
        /\ IF deleteCommonResponse(resp) = "panic"
           THEN /\ pc' = "panic"
                /\ NoWait
           ELSE /\ pc' = "wait"
                /\ StartWait("delete", d.Id, "", DefaultTimeout)
    /\ UNCHANGED <<now, result, d, d0, lastResp>>

\* ------------------------------------------------------- the goroutines
PollTask(kind) ==
    /\ waitKind = kind /\ taskPc = "poll" /\ pc # "panic"
    /\ Len(obs) < MaxPolls
    /\ \E resp \in ListResponses(waitId) :
        LET g    == getLoadBalancerInstance(resp, waitId)
            done == IF kind = "create"
                    THEN waitForLoadBalancerInstanceDone(g, waitStatus)
                    ELSE waitForDeleteLoadBalancerInstanceDone(g)
            o    == PollOutcome(g, done)
        IN
        /\ obs' = Append(obs, ObsOf(g))
        /\ taskPc' = o.pc
        /\ taskVal' = o.val
        /\ sleepUntil' = IF o.pc = "sleep" THEN now + SleepSeconds ELSE sleepUntil
    /\ UNCHANGED <<remote, now, callerVars, waitVars, timerFired, c1, sends, sleeps>>

waitForLoadBalancerInstancePoll == PollTask("create")

waitForDeleteLoadBalancerInstancePoll == PollTask("delete")

\* c1 <- err, c1 <- nil; return
TaskSend ==
    /\ taskPc = "send" /\ pc # "panic"
    /\ Len(c1) < ChanCap
    /\ c1' = Append(c1, taskVal)
    /\ sends' = sends + 1
    /\ taskPc' = "done"
    /\ UNCHANGED <<remote, now, callerVars, waitVars, timerFired, taskVal, sleepUntil, obs, sleeps>>

\* time.Sleep returns
TaskWake ==
    /\ taskPc = "sleep" /\ pc # "panic"
    /\ now >= sleepUntil
    /\ taskPc' = "poll"
    /\ sleeps' = sleeps + 1
    /\ UNCHANGED <<remote, now, callerVars, waitVars, timerFired, c1, sends, taskVal, sleepUntil, obs>>

\* ------------------------------------------------------------ the select
\* time.After's channel delivers
TimerFire ==
    /\ pc = "wait" /\ ~timerFired
    /\ now >= deadline
    /\ timerFired' = TRUE
    /\ UNCHANGED <<remote, now, callerVars, waitVars, c1, taskVars>>

\* the handler's code after its wait returned res
AfterWait(res) ==
    /\ waitResult' = res
    /\ obsAtReturn' = Len(obs)
    /\ IF waitKind = "create"
       THEN IF res # Nil
            THEN LET f == CreateWaitFailed(d, res) IN
                 /\ pc' = "returned"
                 /\ result' = f.result
                 /\ d' = f.d
                 /\ calls' = calls \o f.calls
            ELSE /\ pc' = "read"
                 /\ UNCHANGED <<result, d, calls>>
       ELSE /\ pc' = "returned"
            /\ result' = res
            /\ UNCHANGED <<d, calls>>
    /\ UNCHANGED <<remote, now, op, d0, delResp, lastResp>>
    /\ UNCHANGED <<waitKind, waitId, waitStatus, waitStart, deadline, timerFired>>

\* case res := <-c1
SelectRecv(kind) ==
    /\ pc = "wait" /\ waitKind = kind
    /\ c1 # <<>>
    /\ c1' = Tail(c1)
    /\ AfterWait(Head(c1))
    /\ UNCHANGED taskVars

\* case <-time.After(...)
SelectTimeout(kind) ==
    /\ pc = "wait" /\ waitKind = kind
    /\ timerFired
    /\ AfterWait(TimeoutError(waitId))
    /\ UNCHANGED <<c1, taskVars>>

waitForLoadBalancerInstanceRecv == SelectRecv("create")

waitForLoadBalancerInstanceTimeout == SelectTimeout("create")

waitForDeleteLoadBalancerInstanceRecv == SelectRecv("delete")

waitForDeleteLoadBalancerInstanceTimeout == SelectTimeout("delete")

\* ----------------------------------------------------------- environment
\* a second passes
Tick ==
    /\ now < MaxTime
    /\ pc # "panic"
    /\ now' = now + 1
    /\ UNCHANGED <<remote, callerVars, waitVars, timerFired, c1, taskVars>>

\* the platform moves an instance to another status, or removes it
RemoteChange ==
    /\ pc \in {"wait", "read"} \/ (pc = "returned" /\ taskPc \in {"poll", "sleep"})
    /\ \E no \in Present, s \in StatusCodes \cup {Absent} :
        /\ s # remote[no]
        /\ remote' = [remote EXCEPT ![no] = s]
    /\ UNCHANGED <<now, callerVars, waitVars, timerFired, c1, taskVars>>

Next ==
    \/ resourceNcloudLoadBalancerCreateErr
    \/ resourceNcloudLoadBalancerCreateEmpty
    \/ resourceNcloudLoadBalancerCreate
    \/ resourceNcloudLoadBalancerCreateRead
    \/ resourceNcloudLoadBalancerRead
    \/ resourceNcloudLoadBalancerUpdate
    \/ resourceNcloudLoadBalancerDeleteErr
    \/ resourceNcloudLoadBalancerDelete
    \/ waitForLoadBalancerInstancePoll
    \/ waitForDeleteLoadBalancerInstancePoll
    \/ TaskSend
    \/ TaskWake
    \/ TimerFire
    \/ waitForLoadBalancerInstanceRecv
    \/ waitForLoadBalancerInstanceTimeout
    \/ waitForDeleteLoadBalancerInstanceRecv
    \/ waitForDeleteLoadBalancerInstanceTimeout
    \/ Tick
    \/ RemoteChange

Spec == Init /\ [][Next]_vars

TypeOK ==
    /\ now \in 0..MaxTime
    /\ pc \in {"idle", "wait", "read", "returned", "panic"}
    /\ taskPc \in {"none", "poll", "send", "sleep", "done"}
    /\ Len(obs) <= MaxPolls

\* ================================================================ claims
Range(s) == {s[i] : i \in DOMAIN s}

WaitReturned == waitResult # NoResult

IsTimeout(r) == Len(r) > 0 /\ r[1] = "TIMEOUT"

\* statuses of an existing instance that are not what the wait waits for
NotTarget == StatusCodes \ {waitStatus}

\* the timeout the running wait was given
WaitTimeout == IF waitKind = "create" THEN DefaultCreateTimeout ELSE DefaultTimeout

\* what the running wait waits for, as its error message would name it
Awaited == IF waitKind = "create" THEN waitStatus ELSE "delete"

\* an observation that ends the polling loop
Terminal(o) ==
    \/ o \in Errors
    \/ o = Absent
    \/ waitKind = "create" /\ o = waitStatus

\* C1: a create-oriented wait in which a poll found the instance absent
\* returns a failure, never success.
C1_AbsentFailsCreateWait ==
    (/\ waitKind = "create"
     /\ WaitReturned
     /\ \E k \in 1..obsAtReturn : obs[k] = Absent)
    => waitResult # Nil

\* C2: whenever Create returns success, the recorded
\* load_balancer_instance_status code is "USED".
C2_CreateRecordsUsed ==
    (op = "create" /\ pc = "returned" /\ result = Nil) => d.status = "USED"

\* C3: a wait whose polls all returned the existing instance in a status
\* other than the target returns the timeout error; a timeout error names
\* the resource ID and is returned only with the timer fired, at or after
\* the deadline.
C3_TimeoutAtDeadline ==
    /\ (WaitReturned /\ \A k \in 1..obsAtReturn : obs[k] \in NotTarget)
         => IsTimeout(waitResult)
    /\ (WaitReturned /\ IsTimeout(waitResult))
         => /\ timerFired
            /\ now >= waitStart + WaitTimeout
            /\ waitId \in Range(waitResult)

C3_Witness ==
    /\ waitKind = "create"
    /\ WaitReturned /\ IsTimeout(waitResult)
    /\ obsAtReturn >= 2
    /\ \A k \in 1..obsAtReturn : obs[k] = "INIT"

\* C4: when the k-th poll of the create-oriented wait is the first to see
\* the target status, and the earlier ones saw the instance in another
\* status, the goroutine has made exactly k polls and k-1 sleeps and sends
\* nil; the wait, if it returned without its timer fired, returned success
\* after those k polls.
C4_SuccessAfterKPolls ==
    \A k \in 1..Len(obs) :
        (/\ waitKind = "create"
         /\ obs[k] = waitStatus
         /\ \A j \in 1..(k-1) : obs[j] \in NotTarget)
        => /\ Len(obs) = k
           /\ sleeps = k - 1
           /\ taskPc \in {"send", "done"}
           /\ taskVal = Nil
           /\ (WaitReturned /\ ~timerFired) => (waitResult = Nil /\ obsAtReturn = k)

C4_Witness ==
    /\ waitKind = "create"
    /\ obs = <<"INIT", "INIT", "USED">>
    /\ sleeps = 2
    /\ waitResult = Nil
    /\ ~timerFired

\* C5: Read (and Update, which is Read) of an ID that a successful listing
\* does not contain: the lookup returns (nil, nil), the handler returns nil
\* and sets nothing.
C5_ReadAbsent ==
    (/\ op \in {"read", "update"}
     /\ pc = "returned"
     /\ lastResp.err = ""
     /\ \A i \in DOMAIN lastResp.list : lastResp.list[i].LoadBalancerInstanceNo # d0.Id)
    => /\ getLoadBalancerInstance(lastResp, d0.Id) = [instance |-> <<>>, err |-> Nil]
       /\ result = Nil
       /\ d = d0

C5_Witness ==
    /\ op = "read"
    /\ pc = "returned"
    /\ lastResp.err = ""
    /\ Len(lastResp.list) >= 1
    /\ \A i \in DOMAIN lastResp.list : lastResp.list[i].LoadBalancerInstanceNo # d0.Id

\* C6: after a delete call without error, with a response or with none,
\* Delete does not panic; the poll that finds the instance absent is the
\* last one and sends nil; and Delete, if its timer did not fire, returns
\* success.
C6_DeleteConverges ==
    /\ (op = "delete" /\ delResp \in {"nil", "resp"}) => pc # "panic"
    /\ \A k \in 1..Len(obs) :
        (waitKind = "delete" /\ obs[k] = Absent)
        => /\ k = Len(obs)
           /\ taskPc \in {"send", "done"}
           /\ taskVal = Nil
           /\ (WaitReturned /\ ~timerFired)
                => (pc = "returned" /\ result = Nil /\ obsAtReturn = k)

C6_Witness ==
    /\ op = "delete"
    /\ delResp = "nil"
    /\ pc = "returned"
    /\ result = Nil
    /\ Len(obs) = 3
    /\ obs[3] = Absent

\* C7: in either wait, a poll that returned an error is the last poll, the
\* goroutine sends that error, and the wait, if its timer did not fire,
\* returns exactly that error.
C7_PollErrorEndsLoop ==
    \A k \in 1..Len(obs) :
        (waitKind \in {"create", "delete"} /\ obs[k] \in Errors)
        => /\ k = Len(obs)
           /\ taskPc \in {"send", "done"}
           /\ taskVal = ApiError(obs[k])
           /\ (WaitReturned /\ ~timerFired) => waitResult = ApiError(obs[k])

C7_Witness ==
    /\ waitKind = "delete"
    /\ WaitReturned /\ ~timerFired
    /\ Len(obs) >= 2
    /\ waitResult = ApiError("E2")

\* C8: when the create call succeeded and the wait failed, Create returns
\* the wait's error, the only mutating call it issued is the create, and
\* the ID set before the wait is still recorded.
C8_NoRollback ==
    (op = "create" /\ pc = "returned" /\ WaitReturned /\ waitResult # Nil)
    => /\ result = waitResult
       /\ calls = <<"create">>
       /\ d.Id = waitId
       /\ d.Id \in IDs

C8_Witness ==
    /\ op = "create"
    /\ pc = "returned"
    /\ IsTimeout(waitResult)
    /\ remote[waitId] # Absent

\* C9: the timeout error of a wait carries the resource ID and the status
\* the wait was waiting for.
C9_TimeoutNamesStatus ==
    (WaitReturned /\ IsTimeout(waitResult))
    => /\ waitId \in Range(waitResult)
       /\ Awaited \in Range(waitResult)

\* the state part of C10
PollTaskState ==
    /\ sends <= 1
    /\ Len(c1) <= 1
    /\ taskPc = "send" => Len(c1) < ChanCap
    /\ taskPc = "done" => sends = 1
    /\ (WaitReturned /\ (sends = 0 \/ c1 # <<>>)) => IsTimeout(waitResult)
    /\ \A k \in 1..Len(obs) :
        Terminal(obs[k]) => (k = Len(obs) /\ taskPc \in {"send", "done"})

\* C10: the goroutine sends at most once and its send finds room in the
\* channel; a wait that returns with nothing received returns the timeout
\* error; the timeout return leaves the goroutine as it is; and the
\* goroutine's first poll that errors or sees the awaited condition is its
\* last, received or not.
C10_PollTaskAbandoned ==
    /\ []PollTaskState
    /\ [][(~WaitReturned /\ IsTimeout(waitResult')) => UNCHANGED <<c1, taskVars>>]_vars

C10_Witness ==
    /\ IsTimeout(waitResult)
    /\ pc = "returned"
    /\ Len(obs) > obsAtReturn
    /\ taskPc = "done"
    /\ c1 # <<>>
====
